---- MODULE Spec2Model ----
(***************************************************************************)
(* The streaming session orchestrator of src/index.js (the variant with    *)
(* Azure text-to-speech, lines 162-366): the closure that                  *)
(* wss.on('connection') builds for every WebSocket, its handlers for the   *)
(* socket's 'message', 'close' and 'error' events, the handlers it puts   *)
(* on the Google streamingRecognize stream ('error', 'data'), and the      *)
(* async pipeline run (Gemini fetch, then Azure speakTextAsync) that a     *)
(* final transcript starts.                                                *)
(*                                                                         *)
(* The file also holds the earlier variant of the server (lines 1-161),    *)
(* which has the same handlers but no synthesis: its run ends by sending   *)
(* the answer as {aiResponseText}. The variable `variant` says which one   *)
(* runs; Spec is the speech variant, SpecVariants either of them.          *)
(* SpecTwoSessions has two connections at once; the state of a session is  *)
(* the value of each variable at that session, since every connection has  *)
(* a closure of its own and the clients the closures share keep no state.  *)
(*                                                                         *)
(* Every action is one run-to-completion step of the Node.js event loop:   *)
(* a handler from its start to its return or to its next await.            *)
(*                                                                         *)
(* The environment is the `ws` package (version 8, the one that exports    *)
(* WebSocketServer by name, src/index.js:168) and Node streams:            *)
(*   - ws.send() on a socket whose readyState is not OPEN discards the     *)
(*     message and does not throw;                                         *)
(*   - a text frame reaches the 'message' listener as a Buffer, like a    *)
(*     binary one (ws 7 passed a string); Spec has a client that sends     *)
(*     audio only, SpecTextFrames one that sends text frames too;          *)
(*   - ws.close() moves an OPEN socket to CLOSING; messages of the peer    *)
(*     are still delivered until 'close' is emitted;                       *)
(*   - 'error' is emitted at most once, the socket stops reading, and      *)
(*     'close' follows; nothing is emitted after 'close';                  *)
(*   - stream.end() half-closes the recognize stream: the provider may     *)
(*     still deliver 'data' or 'error' until it finishes the stream.       *)
(***************************************************************************)
EXTENDS Integers, Sequences, FiniteSets, TLC

\* ------------------------------------------------------------------ bounds
\* Audio frames (Buffer messages) the server receives, over all sessions.
MaxFrames == 2
\* 'data' events the provider delivers, over the streams of all sessions.
MaxEvents == 2

\* The sessions of this specification (one WebSocket connection each).
SessionIds == {1}

\* The sessions of the specification with concurrent connections.
TwoSessionIds == {1, 2}

\* result.audioData of the synthesis of run r: the bytes of the end-to-end
\* scenario, then buffers whose encoding needs one and two padding marks.
AudioSamples == <<(<<1, 2, 3>>), (<<255, 16>>), (<<255>>), (<<0, 16, 131, 16, 81>>)>>

AudioData(r) == AudioSamples[((r - 1) % Len(AudioSamples)) + 1]

VARIABLES
    ready,            \* the socket: "NONE" before the connection, then ws.readyState
                      \* ("OPEN", "CLOSING", "CLOSED"), with "FAILED" for the
                      \* CLOSING socket that has emitted 'error' and reads no more
    recognizeStream,  \* the closure variable: 0 is null, else a stream id
    stt,              \* the streams a session has opened: id -> [status, ends]
    nFrames,          \* Buffer messages received so far
    writes,           \* the calls recognizeStream.write(message), in order
    events,           \* the 'data' events that carried a transcript, counted
    runs,             \* the pipeline runs started, in order
    outbound,         \* the messages that reached the client, in order
    speechConfigured, \* AZURE_SPEECH_KEY and AZURE_SPEECH_REGION are both set
    variant,          \* which variant of the server runs: "speech" (lines
                      \* 162-366, Azure synthesis) or "text" (lines 1-161, which
                      \* sends the answer as text)
    sendsText,        \* the client also sends text frames
    textFrames        \* the Buffer messages that were text frames, by number

vars == <<ready, recognizeStream, stt, nFrames, writes, events,
          runs, outbound, speechConfigured, variant, sendsText, textFrames>>

Sessions == DOMAIN ready

\* What the bounds count: the frames taken and the transcripts handled so
\* far, over all sessions.
RECURSIVE SumOver(_, _)
SumOver(f, S) ==
    IF S = {} THEN 0
    ELSE LET c == CHOOSE x \in S : TRUE IN f[c] + SumOver(f, S \ {c})

FramesTaken == SumOver(nFrames, Sessions)

EventsTaken == SumOver([c \in Sessions |-> events[c].transcripts], Sessions)

\* ----------------------------------------------------------------- base64
\* Buffer.prototype.toString('base64'): the standard alphabet, '=' padding.
Base64Alphabet ==
    <<"A","B","C","D","E","F","G","H","I","J","K","L","M","N","O","P",
      "Q","R","S","T","U","V","W","X","Y","Z","a","b","c","d","e","f",
      "g","h","i","j","k","l","m","n","o","p","q","r","s","t","u","v",
      "w","x","y","z","0","1","2","3","4","5","6","7","8","9","+","/">>

Sextet(n) == Base64Alphabet[(n % 64) + 1]

RECURSIVE BadBase64(_)
BadBase64(bytes) ==
    IF Len(bytes) = 0 THEN <<>>
    ELSE <<Sextet(bytes[1] \div 4)>> \o BadBase64(Tail(bytes))

RECURSIVE Base64(_)
Base64(bytes) ==
    IF Len(bytes) = 0 THEN <<>>
    ELSE IF Len(bytes) = 1 THEN
        <<Sextet(bytes[1] \div 4), Sextet((bytes[1] % 4) * 16), "=", "=">>
    ELSE IF Len(bytes) = 2 THEN
        <<Sextet(bytes[1] \div 4),
          Sextet((bytes[1] % 4) * 16 + bytes[2] \div 16),
          Sextet((bytes[2] % 16) * 4), "=">>
    ELSE
        <<Sextet(bytes[1] \div 4),
          Sextet((bytes[1] % 4) * 16 + bytes[2] \div 16),
          Sextet((bytes[2] % 16) * 4 + bytes[3] \div 64),
          Sextet(bytes[3] % 64)>>
        \o Base64(SubSeq(bytes, 4, Len(bytes)))

\* --------------------------------------------------------------- messages
\* JSON.stringify({ transcribedText: transcript, isFinal: result.isFinal });
\* the transcript is named by the event that carried it.
TranscriptMsg(ev, isFinal) ==
    [kind |-> "transcribedText", ref |-> ev, isFinal |-> isFinal, data |-> <<>>]

\* JSON.stringify({ aiAudioBase64: aiAudioBase64 }), of pipeline run r.
AudioMsg(r, azureAudioBuffer) ==
    [kind |-> "aiAudioBase64", ref |-> r, isFinal |-> FALSE,
     data |-> Base64(azureAudioBuffer)]

\* JSON.stringify({ error: `AI/TTS error: ...` }), of pipeline run r; the
\* text variant words it `AI response error: ...`.
AiErrorMsg(r) ==
    [kind |-> "error", ref |-> r, isFinal |-> FALSE,
     data |-> <<IF variant = "text" THEN "AI response error" ELSE "AI/TTS error">>]

\* JSON.stringify({ aiResponseText: aiText }), of pipeline run r (text
\* variant).
AiTextMsg(r, aiText) ==
    [kind |-> "aiResponseText", ref |-> r, isFinal |-> FALSE, data |-> <<aiText>>]

\* JSON.stringify({ error: `STT streaming error: ...` }), of stream s.
SttErrorMsg(s) ==
    [kind |-> "error", ref |-> s, isFinal |-> FALSE,
     data |-> <<"STT streaming error">>]

\* ------------------------------------------------------------ the socket
\* ws.send(msg): delivered on an OPEN socket, discarded otherwise.
WsSendAlways(c, msg) ==
    outbound' = [outbound EXCEPT ![c] = Append(@, msg)]

WsSendFirst(c, msg) ==
    IF ready[c] = "OPEN"
    THEN outbound' = [outbound EXCEPT ![c] = <<msg>> \o @]
    ELSE outbound' = outbound

WsSend(c, msg) ==
    IF ready[c] = "OPEN"
    THEN outbound' = [outbound EXCEPT ![c] = Append(@, msg)]
    ELSE outbound' = outbound

\* ws.close(): starts the closing handshake of an OPEN socket; ws is the
\* socket of this connection's closure.
WsCloseAll(c) ==
    ready' = [d \in DOMAIN ready |-> IF ready[d] = "OPEN" THEN "CLOSING" ELSE ready[d]]

WsClose(c) ==
    ready' = [ready EXCEPT ![c] = IF @ = "OPEN" THEN "CLOSING" ELSE @]

\* ------------------------------------------------------------ the stream
\* A stream is live from streamingRecognize() until the provider has
\* finished it or it has emitted its terminal error.
Live(status) == status \in {"open", "ended"}

\* stream.end(): half-closes an open stream; counted on every stream.
StreamEnd(st) ==
    [status |-> IF st.status = "open" THEN "ended" ELSE st.status,
     ends |-> st.ends + 1]

\* stream.write(message): a write to a stream the provider has finished is
\* remembered, since Node may answer it with an 'error' event; so is a write
\* to a stream that has emitted its terminal error.
StreamWrite(st) ==
    [st EXCEPT !.status = CASE @ = "closed" -> "closedWritten"
                            [] @ = "errored" -> "erroredWritten"
                            [] OTHER -> @]

\* wss.on('connection'): a new closure, recognizeStream = null.
OnConnection(c) ==
    /\ ready[c] = "NONE"
    /\ ready' = [ready EXCEPT ![c] = "OPEN"]
    /\ recognizeStream' = [recognizeStream EXCEPT ![c] = 0]
    /\ UNCHANGED <<stt, nFrames, writes, events, runs, outbound, speechConfigured, variant, sendsText, textFrames>>

\* ------------------------------------------------------ ws.on('message')
\* if (!recognizeStream): the stream is opened lazily.
AlwaysOpen(c) == TRUE

LazyOpenNeeded(c) == recognizeStream[c] = 0

\* recognizeStream.write(message) stands after the if: it runs whether or
\* not this message opened the stream.
WritesUnlessOpened(opened) == ~opened

WritesFrame(opened) == TRUE

\* googleSpeechClient.streamingRecognize(request): a new open stream.
NewStream == [status |-> "open", ends |-> 0]

\* ws.on('message', ...): the socket emits 'message' while it is open or
\* closing, whatever the pipeline runs are doing; the handler has no test
\* of its own on them.
DeliversAfterClose(c) == ready[c] # "NONE"

DeliversWhenIdle(c) ==
    /\ ready[c] \in {"OPEN", "CLOSING"}
    /\ \A r \in DOMAIN runs[c] : runs[c][r].pc = "done"

Delivers(c) == ready[c] \in {"OPEN", "CLOSING"}

\* What `message instanceof Buffer` can be for a frame of this kind. A
\* binary frame is always delivered as a Buffer. A text frame is delivered
\* as a Buffer too by ws 8 (which passes the frame type in a second argument
\* the handler does not take), and as a string by ws 7.
ArrivesAsBuffer(kind) == IF kind = "binary" THEN {TRUE} ELSE {TRUE, FALSE}

\* One message of the client, a frame of the given kind. isBuffer is the
\* handler's own test, typeof message === 'object' && message instanceof
\* Buffer.
WsOnMessage(c, kind, isBuffer) ==
    /\ Delivers(c)
    /\ kind = "text" => sendsText
    /\ textFrames' = IF isBuffer /\ kind = "text"
                     THEN [textFrames EXCEPT ![c] = @ \cup {nFrames[c] + 1}]
                     ELSE textFrames
    /\ IF isBuffer
       THEN /\ FramesTaken < MaxFrames
            /\ LET opened == LazyOpenNeeded(c)
                   streams == IF opened THEN Append(stt[c], NewStream) ELSE stt[c]
                   rs == IF opened THEN Len(streams) ELSE recognizeStream[c]
                   frame == nFrames[c] + 1
               IN  /\ recognizeStream' = [recognizeStream EXCEPT ![c] = rs]
                   /\ nFrames' = [nFrames EXCEPT ![c] = frame]
                   /\ IF WritesFrame(opened)
                      THEN /\ stt' = [stt EXCEPT ![c] =
                                        [streams EXCEPT ![rs] = StreamWrite(@)]]
                           /\ writes' = [writes EXCEPT ![c] = Append(@,
                                  [stream |-> rs, frame |-> frame])]
                      ELSE /\ stt' = [stt EXCEPT ![c] = streams]
                           /\ writes' = writes
       ELSE UNCHANGED <<recognizeStream, nFrames, stt, writes>>
    /\ UNCHANGED <<ready, events, runs, outbound,
                   speechConfigured, variant, sendsText>>

\* ------------------------------------------- ws.on('close'), ws.on('error')
\* if (recognizeStream) { recognizeStream.end(); recognizeStream = null }
EndWithoutClear(c) ==
    IF recognizeStream[c] # 0
    THEN /\ stt' = [stt EXCEPT ![c][recognizeStream[c]] = StreamEnd(@)]
         /\ recognizeStream' = recognizeStream
    ELSE UNCHANGED <<stt, recognizeStream>>

EndRecognizeStream(c) ==
    IF recognizeStream[c] # 0
    THEN /\ stt' = [stt EXCEPT ![c][recognizeStream[c]] = StreamEnd(@)]
         /\ recognizeStream' = [recognizeStream EXCEPT ![c] = 0]
    ELSE UNCHANGED <<stt, recognizeStream>>

\* The socket emits 'close': the last event of a session.
WsOnClose(c) ==
    /\ ready[c] \in {"OPEN", "CLOSING", "FAILED"}
    /\ ready' = [ready EXCEPT ![c] = "CLOSED"]
    /\ EndRecognizeStream(c)
    /\ UNCHANGED <<nFrames, writes, events, runs, outbound,
                   speechConfigured, variant, sendsText, textFrames>>

\* The socket emits 'error' (ws has called close() and reads no more).
WsOnError(c) ==
    /\ ready[c] \in {"OPEN", "CLOSING"}
    /\ ready' = [ready EXCEPT ![c] = "FAILED"]
    /\ EndRecognizeStream(c)
    /\ UNCHANGED <<nFrames, writes, events, runs, outbound,
                   speechConfigured, variant, sendsText, textFrames>>

\* ------------------------------------------------ recognizeStream 'error'
\* ws.send(JSON.stringify({ error })) and then ws.close().
CloseThenSend(c, s) ==
    /\ WsClose(c)
    /\ outbound' = outbound

StreamOnError(c, s) ==
    /\ WsSend(c, SttErrorMsg(s))
    /\ WsClose(c)

\* The terminal error of stream s: of a live stream, or Node's answer to a
\* write after the provider finished the stream.
StreamError(c, s) ==
    /\ s \in DOMAIN stt[c]
    /\ stt[c][s].status \in {"open", "ended", "closedWritten"}
    /\ stt' = [stt EXCEPT ![c][s].status = "errored"]
    /\ StreamOnError(c, s)
    /\ UNCHANGED <<recognizeStream, nFrames, writes, events, runs,
                   speechConfigured, variant, sendsText, textFrames>>

\* The provider finishes stream s (voice activity detection, a timeout, or
\* the end of a half-closed stream); the code listens to no such event.
StreamFinish(c, s) ==
    /\ s \in DOMAIN stt[c]
    /\ Live(stt[c][s].status)
    /\ stt' = [stt EXCEPT ![c][s].status = "closed"]
    /\ UNCHANGED <<ready, recognizeStream, nFrames, writes, events,
                   runs, outbound, speechConfigured, variant, sendsText, textFrames>>

\* ------------------------------------------------- recognizeStream 'data'
\* if (result.isFinal): only a final result starts a pipeline run.
TriggersOnTranscript(shape) == shape # "none"

TriggersPipeline(shape) == shape = "final"

\* The run up to its first await: fetch(geminiApiUrl, ...) has been called.
DroppedRun(ev) ==
    [ev |-> ev, pc |-> "done", gemini |-> "pending", aiText |-> "unset",
     spoken |-> <<>>, synthesis |-> "pending", audioData |-> <<>>,
     errorSends |-> 0, audioSends |-> 0]

NewRun(ev) ==
    [ev |-> ev, pc |-> "fetch", gemini |-> "pending", aiText |-> "unset",
     spoken |-> <<>>, synthesis |-> "pending", audioData |-> <<>>,
     errorSends |-> 0, audioSends |-> 0]

\* One 'data' event of stream s. shape is what the handler's tests see:
\* "none" (no results, or no alternatives: nothing happens), "interim" or
\* "final". A transcript is named by its number among the transcripts.
StreamData(c, s, shape) ==
    /\ s \in DOMAIN stt[c]
    /\ Live(stt[c][s].status)
    /\ EventsTaken < MaxEvents
    /\ LET ev == events[c].transcripts + 1
       IN  IF shape = "none"
           THEN UNCHANGED <<events, outbound, runs>>
           ELSE /\ events' = [events EXCEPT ![c] =
                                [transcripts |-> ev,
                                 finals |-> @.finals + IF shape = "final"
                                                       THEN 1 ELSE 0]]
                /\ WsSend(c, TranscriptMsg(ev, shape = "final"))
                /\ runs' = IF TriggersPipeline(shape)
                           THEN [runs EXCEPT ![c] = Append(@, NewRun(ev))]
                           ELSE runs
    /\ UNCHANGED <<ready, recognizeStream, stt, nFrames, writes,
                   speechConfigured, variant, sendsText, textFrames>>

\* ------------------------------------------------------- the pipeline run
\* catch (aiProcessingError): one ws.send of { error }, nothing else.
CatchAndEndStream(c, r, run) ==
    /\ runs' = [runs EXCEPT ![c][r] =
                  [run EXCEPT !.pc = "done", !.errorSends = @ + 1]]
    /\ WsSend(c, AiErrorMsg(r))
    /\ EndRecognizeStream(c)

CatchAndLog(c, r, run) ==
    /\ runs' = [runs EXCEPT ![c][r] = [run EXCEPT !.pc = "done"]]
    /\ UNCHANGED <<outbound, stt, recognizeStream>>

CatchAiProcessingError(c, r, run) ==
    /\ runs' = [runs EXCEPT ![c][r] =
                  [run EXCEPT !.pc = "done", !.errorSends = @ + 1]]
    /\ WsSend(c, AiErrorMsg(r))
    /\ UNCHANGED <<stt, recognizeStream>>

\* await fetch(...) settles: rejected (no response), or a response whose
\* ok is false or true; either response is then read with await json().
FetchSettles(c, r, outcome) ==
    /\ r \in DOMAIN runs[c]
    /\ runs[c][r].pc = "fetch"
    /\ LET run == [runs[c][r] EXCEPT !.gemini = outcome]
       IN  IF outcome = "rejected"
           THEN CatchAiProcessingError(c, r, run)
           ELSE /\ runs' = [runs EXCEPT ![c][r] =
                              [run EXCEPT !.pc = IF outcome = "notOk"
                                                 THEN "errorBody"
                                                 ELSE "resultBody"]]
                /\ UNCHANGED <<outbound, stt, recognizeStream>>
    /\ UNCHANGED <<ready, nFrames, writes, events, speechConfigured, variant, sendsText, textFrames>>

\* if (!geminiResponse.ok): whatever the error body holds, the run throws.
ErrorBodySettles(c, r) ==
    /\ r \in DOMAIN runs[c]
    /\ runs[c][r].pc = "errorBody"
    /\ CatchAiProcessingError(c, r, runs[c][r])
    /\ UNCHANGED <<ready, nFrames, writes, events, speechConfigured, variant, sendsText, textFrames>>

\* let aiText = <fallback>; replaced by candidates[0].content.parts[0].text
\* when candidates, content and parts are there and parts is not empty.
\* "blankPart" is a first part whose text is missing or empty.
AiText(payload) ==
    CASE payload = "answer" -> "answer"
      [] payload = "noParts" -> "fallback"
      [] payload = "blankPart" -> ""

\* if (!speechKey || !speechRegion) throw: checked before the synthesizer
\* is built.
SynthesisAllowedAlways == TRUE

SynthesisAllowed == speechConfigured

\* Text variant: ws.send(JSON.stringify({ aiResponseText: aiText })) ends
\* the run.
SendAiText(c, r, run) ==
    /\ runs' = [runs EXCEPT ![c][r] = [run EXCEPT !.pc = "done"]]
    /\ WsSend(c, AiTextMsg(r, run.aiText))
    /\ UNCHANGED <<stt, recognizeStream>>

\* await geminiResponse.json() of an ok response settles: "unreadable" (it
\* rejects, or the value has no properties to read), or a payload. Then the
\* credentials check, and synthesizer.speakTextAsync(aiText, ...); the text
\* variant sends aiText instead.
ResultBodySettles(c, r, payload) ==
    /\ r \in DOMAIN runs[c]
    /\ runs[c][r].pc = "resultBody"
    /\ IF payload = "unreadable"
       THEN CatchAiProcessingError(c, r, runs[c][r])
       ELSE LET run == [runs[c][r] EXCEPT !.aiText = AiText(payload)]
            IN  IF variant = "text" THEN SendAiText(c, r, run)
                ELSE IF SynthesisAllowed
                THEN /\ runs' = [runs EXCEPT ![c][r] =
                                   [run EXCEPT !.pc = "speak",
                                               !.spoken = Append(@, run.aiText)]]
                     /\ UNCHANGED <<outbound, stt, recognizeStream>>
                ELSE CatchAiProcessingError(c, r, run)
    /\ UNCHANGED <<ready, nFrames, writes, events, speechConfigured, variant, sendsText, textFrames>>

\* ws.send(JSON.stringify({ aiAudioBase64 })) after the promise resolved
\* with Buffer.from(result.audioData).
SendAudio(c, r, run, audioData) ==
    /\ runs' = [runs EXCEPT ![c][r] =
                  [run EXCEPT !.pc = "done", !.audioData = audioData,
                              !.audioSends = @ + 1]]
    /\ WsSend(c, AudioMsg(r, audioData))
    /\ UNCHANGED <<stt, recognizeStream>>

\* if (result.reason === sdk.ResultReason.SynthesizingAudioCompleted)
\* resolve(...): every other outcome rejects.
SynthesisNotAnError(reason) == reason # "error"

SynthesisCompleted(reason) == reason = "completed"

\* speakTextAsync calls back: the result callback with reason
\* SynthesizingAudioCompleted, the result callback with another reason
\* ("canceled"), or the error callback ("error").
SpeakSettles(c, r, reason) ==
    /\ r \in DOMAIN runs[c]
    /\ runs[c][r].pc = "speak"
    /\ LET run == [runs[c][r] EXCEPT !.synthesis =
                     IF reason = "completed" THEN "completed" ELSE "failed"]
       IN  IF SynthesisCompleted(reason)
           THEN SendAudio(c, r, run, AudioData(r))
           ELSE CatchAiProcessingError(c, r, run)
    /\ UNCHANGED <<ready, nFrames, writes, events, speechConfigured, variant, sendsText, textFrames>>

\* The server has started: no connection yet.
Started ==
    /\ ready = [c \in SessionIds |-> "NONE"]
    /\ recognizeStream = [c \in SessionIds |-> 0]
    /\ stt = [c \in SessionIds |-> <<>>]
    /\ nFrames = [c \in SessionIds |-> 0]
    /\ writes = [c \in SessionIds |-> <<>>]
    /\ events = [c \in SessionIds |-> [transcripts |-> 0, finals |-> 0]]
    /\ runs = [c \in SessionIds |-> <<>>]
    /\ outbound = [c \in SessionIds |-> <<>>]
    /\ textFrames = [c \in SessionIds |-> {}]

\* The speech variant, with a client that sends audio frames only.
Init ==
    /\ Started
    /\ speechConfigured \in BOOLEAN
    /\ variant = "speech"
    /\ sendsText = FALSE

\* Either variant of the server is started.
InitVariants ==
    /\ Started
    /\ \/ variant = "speech" /\ speechConfigured \in BOOLEAN
       \/ variant = "text" /\ speechConfigured = FALSE
    /\ sendsText = FALSE

\* The speech variant, with a client that sends text frames as well.
InitTextFrames ==
    /\ Started
    /\ speechConfigured \in BOOLEAN
    /\ variant = "speech"
    /\ sendsText = TRUE

Next ==
    \/ \E c \in Sessions : OnConnection(c)
    \/ \E c \in Sessions, kind \in {"binary", "text"} :
          \E isBuffer \in ArrivesAsBuffer(kind) : WsOnMessage(c, kind, isBuffer)
    \/ \E c \in Sessions : WsOnClose(c)
    \/ \E c \in Sessions : WsOnError(c)
    \/ \E c \in Sessions : \E s \in DOMAIN stt[c] : StreamError(c, s)
    \/ \E c \in Sessions : \E s \in DOMAIN stt[c] : StreamFinish(c, s)
    \/ \E c \in Sessions : \E s \in DOMAIN stt[c] :
          \E shape \in {"none", "interim", "final"} : StreamData(c, s, shape)
    \/ \E c \in Sessions : \E r \in DOMAIN runs[c] :
          \E outcome \in {"rejected", "notOk", "ok"} : FetchSettles(c, r, outcome)
    \/ \E c \in Sessions : \E r \in DOMAIN runs[c] : ErrorBodySettles(c, r)
    \/ \E c \in Sessions : \E r \in DOMAIN runs[c] :
          \E payload \in {"unreadable", "answer", "noParts", "blankPart"} :
              ResultBodySettles(c, r, payload)
    \/ \E c \in Sessions : \E r \in DOMAIN runs[c] :
          \E reason \in {"completed", "canceled", "error"} :
              SpeakSettles(c, r, reason)

Spec == Init /\ [][Next]_vars

\* Every call a run awaits settles (the fetch, the reading of the body, the
\* synthesis), and Node then runs the continuation of the run.
ProviderCallsSettle ==
    \A c \in SessionIds : \A r \in 1..MaxEvents :
        /\ WF_vars(\E outcome \in {"rejected", "notOk", "ok"} :
                      FetchSettles(c, r, outcome))
        /\ WF_vars(ErrorBodySettles(c, r))
        /\ WF_vars(\E payload \in {"unreadable", "answer", "noParts", "blankPart"} :
                      ResultBodySettles(c, r, payload))
        /\ WF_vars(\E reason \in {"completed", "canceled", "error"} :
                      SpeakSettles(c, r, reason))

FairSpec == Init /\ [][Next]_vars /\ ProviderCallsSettle

SpecVariants == InitVariants /\ [][Next]_vars

SpecTextFrames == InitTextFrames /\ [][Next]_vars

\* Two connections to the speech variant, each with its own closure.
InitTwoSessions ==
    /\ ready = [c \in TwoSessionIds |-> "NONE"]
    /\ recognizeStream = [c \in TwoSessionIds |-> 0]
    /\ stt = [c \in TwoSessionIds |-> <<>>]
    /\ nFrames = [c \in TwoSessionIds |-> 0]
    /\ writes = [c \in TwoSessionIds |-> <<>>]
    /\ events = [c \in TwoSessionIds |-> [transcripts |-> 0, finals |-> 0]]
    /\ runs = [c \in TwoSessionIds |-> <<>>]
    /\ outbound = [c \in TwoSessionIds |-> <<>>]
    /\ textFrames = [c \in TwoSessionIds |-> {}]
    /\ speechConfigured \in BOOLEAN
    /\ variant = "speech"
    /\ sendsText = FALSE

SpecTwoSessions == InitTwoSessions /\ [][Next]_vars

\* ------------------------------------------------------------ vocabulary
Errored(status) == status \in {"errored", "erroredWritten"}

LiveStreams(c) == {s \in DOMAIN stt[c] : Live(stt[c][s].status)}

\* Calls of synthesizer.speakTextAsync made by the runs of session c.
RECURSIVE SpeakCalls(_, _)
SpeakCalls(c, n) ==
    IF n = 0 THEN 0 ELSE Len(runs[c][n].spoken) + SpeakCalls(c, n - 1)

\* Runs of session c whose Generator call returned an answer payload.
GeneratorSucceeded(c) == {r \in DOMAIN runs[c] : runs[c][r].aiText # "unset"}

\* The places of the messages of run r in what the client received.
AudioAt(c, r) ==
    {i \in DOMAIN outbound[c] :
        outbound[c][i].kind = "aiAudioBase64" /\ outbound[c][i].ref = r}

AiErrorAt(c, r) == {i \in DOMAIN outbound[c] : outbound[c][i] = AiErrorMsg(r)}

\* A run of session c becomes done in this step.
Completes(c, r) ==
    /\ r \in DOMAIN runs[c]
    /\ runs[c][r].pc # "done"
    /\ runs'[c][r].pc = "done"

\* Stream s of session c emits its terminal error in this step.
EmitsError(c, s) ==
    /\ s \in DOMAIN stt[c]
    /\ ~Errored(stt[c][s].status)
    /\ Errored(stt'[c][s].status)

\* The value of a base64 character, and the bytes a base64 text stands for.
Base64Value(ch) == (CHOOSE i \in 1..64 : Base64Alphabet[i] = ch) - 1

RECURSIVE Base64Decode(_)
Base64Decode(chars) ==
    IF Len(chars) < 4 THEN <<>>
    ELSE LET a == Base64Value(chars[1])
             b == Base64Value(chars[2])
             rest == Base64Decode(SubSeq(chars, 5, Len(chars)))
         IN  IF chars[3] = "=" THEN <<a * 4 + b \div 16>>
             ELSE IF chars[4] = "="
             THEN <<a * 4 + b \div 16,
                    (b % 16) * 16 + Base64Value(chars[3]) \div 4>>
             ELSE <<a * 4 + b \div 16,
                    (b % 16) * 16 + Base64Value(chars[3]) \div 4,
                    (Base64Value(chars[3]) % 4) * 64 + Base64Value(chars[4])>>
                  \o rest

\* ------------------------------------------------------------------- C1
\* C1: in every reachable state a session has at most one live transcription
\* stream (opened, and neither finished by the provider nor failed); so a
\* frame never opens a stream while an earlier stream of the session is live.
C1_AtMostOneLiveStream ==
    \A c \in Sessions : Cardinality(LiveStreams(c)) <= 1

\* A live stream that took two frames: the second frame opened nothing.
C1_Witness ==
    \E c \in Sessions :
        /\ Len(stt[c]) = 1
        /\ Live(stt[c][1].status)
        /\ Len(writes[c]) >= 2

\* ------------------------------------------------------------------- C2
\* C2 as stated: Generator calls started = final transcript events, and
\* Synthesizer calls = Generator calls that succeeded.
C2_Original ==
    \A c \in Sessions :
        /\ Len(runs[c]) = events[c].finals
        /\ SpeakCalls(c, Len(runs[c])) = Cardinality(GeneratorSucceeded(c))

\* C2 amended: Generator calls started = final transcript events (none for
\* an interim event); Synthesizer calls = Generator calls that succeeded
\* when the synthesis key and region are configured, and none otherwise.
C2_CallCounts ==
    \A c \in Sessions :
        /\ Len(runs[c]) = events[c].finals
        /\ SpeakCalls(c, Len(runs[c])) =
              IF speechConfigured THEN Cardinality(GeneratorSucceeded(c)) ELSE 0

\* An interim and a final event were handled, and the one run has called
\* the Synthesizer.
C2_Witness ==
    \E c \in Sessions :
        /\ events[c].transcripts = 2
        /\ events[c].finals = 1
        /\ Len(runs[c]) = 1
        /\ Len(runs[c][1].spoken) = 1

\* ------------------------------------------------------------------- C3
\* A finished run whose Generator response was not ok.
GeneratorFailed(c) ==
    {r \in DOMAIN runs[c] : runs[c][r].gemini = "notOk" /\ runs[c][r].pc = "done"}

C3_OneErrorNoAudio ==
    \A c \in Sessions : \A r \in GeneratorFailed(c) :
        /\ runs[c][r].errorSends = 1
        /\ runs[c][r].audioSends = 0
        /\ runs[c][r].spoken = <<>>
        /\ AudioAt(c, r) = {}
        /\ Cardinality(AiErrorAt(c, r)) <= 1
        /\ ready[c] = "OPEN" => Cardinality(AiErrorAt(c, r)) = 1

C3_StreamUntouched ==
    \A c \in Sessions : \A r \in DOMAIN runs[c] :
        (Completes(c, r) /\ runs'[c][r].gemini = "notOk") =>
            /\ stt'[c] = stt[c]
            /\ recognizeStream'[c] = recognizeStream[c]
            /\ ready'[c] = ready[c]

\* C3: a run whose Generator call got a non-success HTTP response makes one
\* ws.send of {error} (which reaches the client of an open connection once)
\* and none of {aiAudioBase64}, never calls the Synthesizer, and its failure
\* leaves the stream, the session's reference to it and the connection as
\* they were, so that the next frame is written to the same stream.
C3_GeneratorFailureIsolated ==
    []C3_OneErrorNoAudio /\ [][C3_StreamUntouched]_vars

\* A run failed at the Generator, its error reached the client, and the
\* session's stream is still open and still the one frames are written to.
C3_Witness ==
    \E c \in Sessions : \E r \in GeneratorFailed(c) :
        /\ AiErrorAt(c, r) # {}
        /\ recognizeStream[c] # 0
        /\ stt[c][recognizeStream[c]].status = "open"
        /\ ready[c] = "OPEN"

\* ------------------------------------------------------------------- C4
\* C4 as stated: whatever the state of the session, the error of a stream
\* is reported to the client.
C4_Original ==
    \A c \in Sessions : \A s \in DOMAIN stt[c] :
        Errored(stt[c][s].status) =>
            \E i \in DOMAIN outbound[c] : outbound[c][i] = SttErrorMsg(s)

C4_ErrorStep ==
    \A c \in Sessions : \A s \in DOMAIN stt[c] :
        EmitsError(c, s) =>
            IF ready[c] = "OPEN"
            THEN /\ outbound'[c] = Append(outbound[c], SttErrorMsg(s))
                 /\ ready'[c] = "CLOSING"
            ELSE /\ outbound'[c] = outbound[c]
                 /\ ready'[c] = ready[c]

C4_ErrorThenClosure ==
    \A c \in Sessions :
        /\ \A i \in DOMAIN outbound[c] :
              outbound[c][i].data = <<"STT streaming error">> =>
                  /\ i = Len(outbound[c])
                  /\ ready[c] # "OPEN"
        /\ ready[c] = "CLOSED" =>
              /\ recognizeStream[c] = 0
              /\ \A s \in DOMAIN stt[c] :
                    stt[c][s].status # "open" /\ stt[c][s].ends >= 1

\* C4 amended: when a stream reports an error while the client connection
\* is open, one {error} message is sent and then the connection is closed
\* (it leaves OPEN in the same step, so the message is the last one the
\* client gets); the stream is ended when the close of the connection is
\* observed. An error reported while the connection is closing or closed
\* sends nothing.
C4_StreamErrorClosesConnection ==
    []C4_ErrorThenClosure /\ [][C4_ErrorStep]_vars

\* The stream failed on an open connection: the client got the error last,
\* the connection has closed and the stream was ended once.
C4_Witness ==
    \E c \in Sessions :
        /\ ready[c] = "CLOSED"
        /\ Len(outbound[c]) >= 2
        /\ outbound[c][Len(outbound[c])] = SttErrorMsg(1)
        /\ Errored(stt[c][1].status)
        /\ stt[c][1].ends = 1

\* ------------------------------------------------------------------- C5
\* C5: no frame is written to a stream after its terminal error.
C5_NoWriteAfterStreamError ==
    \A c \in Sessions : \A s \in DOMAIN stt[c] :
        stt[c][s].status # "erroredWritten"

\* ------------------------------------------------------------------- C6
C6_EndedAtMostOnce ==
    \A c \in Sessions : \A s \in DOMAIN stt[c] : stt[c][s].ends <= 1

\* The socket emits 'close' or 'error' in this step.
Teardown(c) ==
    \/ ready[c] # "CLOSED" /\ ready'[c] = "CLOSED"
    \/ ready[c] # "FAILED" /\ ready'[c] = "FAILED"

C6_TeardownWithoutStream ==
    \A c \in Sessions :
        (Teardown(c) /\ recognizeStream[c] = 0) =>
            /\ stt'[c] = stt[c]
            /\ recognizeStream'[c] = 0
            /\ outbound'[c] = outbound[c]
            /\ runs'[c] = runs[c]

\* C6: whatever the order of connection close, connection error and late
\* stream errors, end() is called at most once on each stream, and a
\* teardown event of a session that holds no stream changes no stream and
\* sends nothing.
C6_IdempotentClose ==
    []C6_EndedAtMostOnce /\ [][C6_TeardownWithoutStream]_vars

\* The connection is closed and the stream, ended once, has failed late:
\* its error reached no one.
C6_Witness ==
    \E c \in Sessions :
        /\ ready[c] = "CLOSED"
        /\ Len(stt[c]) = 1
        /\ stt[c][1].status = "errored"
        /\ outbound[c] = <<>>
        /\ stt[c][1].ends = 1

\* ------------------------------------------------------------------- C7
\* C7: the calls of write are the frames received, each once and in the
\* order received, the first one included, all on the one stream of the
\* session.
C7_FramesWrittenInOrder ==
    \A c \in Sessions :
        /\ Len(writes[c]) = nFrames[c]
        /\ \A i \in DOMAIN writes[c] :
              /\ writes[c][i].frame = i
              /\ writes[c][i].stream = writes[c][1].stream
              /\ writes[c][i].stream \in DOMAIN stt[c]

C7_Witness ==
    \E c \in Sessions :
        /\ nFrames[c] >= 2
        /\ writes[c][1] = [stream |-> 1, frame |-> 1]
        /\ writes[c][2] = [stream |-> 1, frame |-> 2]

\* ------------------------------------------------------------------- C8
\* The places of the final transcript that started run r.
FinalTranscriptAt(c, r) ==
    {i \in DOMAIN outbound[c] : outbound[c][i] = TranscriptMsg(runs[c][r].ev, TRUE)}

\* C8: an {aiAudioBase64} the client receives decodes to the bytes the
\* Synthesizer returned to its run, is the only one of that run, and comes
\* after the {transcribedText, isFinal:true} of the event that started the
\* run; so does an {error} of a run; and on a connection that is still open
\* a run that succeeded has its final transcript and its audio delivered.
C8_AudioAfterFinalTranscript ==
    \A c \in Sessions : \A r \in DOMAIN runs[c] :
        /\ \A i \in AudioAt(c, r) :
              /\ runs[c][r].pc = "done"
              /\ Base64Decode(outbound[c][i].data) = runs[c][r].audioData
              /\ \E j \in FinalTranscriptAt(c, r) : j < i
        /\ Cardinality(AudioAt(c, r)) <= 1
        /\ \A i \in AiErrorAt(c, r) : \E j \in FinalTranscriptAt(c, r) : j < i
        /\ (ready[c] = "OPEN" /\ runs[c][r].audioSends = 1) =>
              /\ Cardinality(AudioAt(c, r)) = 1
              /\ Cardinality(FinalTranscriptAt(c, r)) = 1

\* The end-to-end scenario: the final transcript, then "AQID" for the
\* bytes 1, 2, 3.
C8_Witness ==
    \E c \in Sessions :
        /\ Len(outbound[c]) = 2
        /\ outbound[c][1] = TranscriptMsg(1, TRUE)
        /\ outbound[c][2].kind = "aiAudioBase64"
        /\ outbound[c][2].data = <<"A", "Q", "I", "D">>
        /\ runs[c][1].audioData = <<1, 2, 3>>

\* ------------------------------------------------------------------- C9
\* C9: the Synthesizer is called with the answer or with the fallback
\* text, never with an empty or missing text.
C9_SynthesizerGetsText ==
    \A c \in Sessions : \A r \in DOMAIN runs[c] :
        \A i \in DOMAIN runs[c][r].spoken :
            runs[c][r].spoken[i] \in {"answer", "fallback"}

C11_ThreeKinds ==
    \A c \in Sessions : \A i \in DOMAIN outbound[c] :
        outbound[c][i].kind \in {"transcribedText", "aiAudioBase64", "error"}

\* ------------------------------------------------------------------ C12
\* C12: a text frame is ignored: it opens no stream and is written to no
\* stream (a frame the handler counts as audio is written).
C12_TextFrameIgnored ==
    \A c \in Sessions : \A i \in DOMAIN writes[c] :
        writes[c][i].frame \notin textFrames[c]

\* ------------------------------------------------------------------ C13
\* A finished run that had its text when the synthesis key or region was
\* found missing.
ConfigurationFailed(c) ==
    {r \in DOMAIN runs[c] :
        /\ ~speechConfigured
        /\ runs[c][r].aiText # "unset"
        /\ runs[c][r].pc = "done"}

C13_OneErrorNoSynthesis ==
    \A c \in Sessions :
        /\ ~speechConfigured =>
              \A r \in DOMAIN runs[c] :
                  runs[c][r].pc # "speak" /\ runs[c][r].spoken = <<>>
        /\ \A r \in ConfigurationFailed(c) :
              /\ runs[c][r].errorSends = 1
              /\ runs[c][r].audioSends = 0
              /\ AudioAt(c, r) = {}
              /\ Cardinality(AiErrorAt(c, r)) <= 1
              /\ ready[c] = "OPEN" => Cardinality(AiErrorAt(c, r)) = 1

C13_SessionUntouched ==
    \A c \in Sessions : \A r \in DOMAIN runs[c] :
        (Completes(c, r) /\ ~speechConfigured /\ runs'[c][r].aiText # "unset") =>
            /\ stt'[c] = stt[c]
            /\ recognizeStream'[c] = recognizeStream[c]
            /\ ready'[c] = ready[c]

\* C13: with the synthesis key or region missing, a run that reaches the
\* synthesis stage never calls the Synthesizer and makes one ws.send of
\* {error} (which reaches the client of an open connection once) and none of
\* {aiAudioBase64}; its failure leaves the connection and the stream as they
\* were.
C13_MissingCredentials ==
    []C13_OneErrorNoSynthesis /\ [][C13_SessionUntouched]_vars

\* Without credentials a run got its text and failed: its error reached the
\* client, and the connection and the stream are still open.
C13_Witness ==
    \E c \in Sessions : \E r \in ConfigurationFailed(c) :
        /\ AiErrorAt(c, r) # {}
        /\ ready[c] = "OPEN"
        /\ recognizeStream[c] # 0
        /\ stt[c][recognizeStream[c]].status = "open"

\* ------------------------------------------------------------------ C14
\* C14: a frame that follows the end of a stream (finished by the provider,
\* the connection not torn down) is written to a new stream: no frame is
\* written to a stream the provider has finished.
C14_NewStreamAfterEnd ==
    \A c \in Sessions : \A i \in DOMAIN writes[c] :
        stt[c][writes[c][i].stream].status # "closedWritten"

\* ------------------------------------------------------------------ C15
\* A run whose synthesis failed: the result was canceled, or the error
\* callback was called.
SynthesisFailed(c) ==
    {r \in DOMAIN runs[c] : runs[c][r].synthesis = "failed"}

C15_OneErrorNoAudio ==
    \A c \in Sessions : \A r \in SynthesisFailed(c) :
        /\ runs[c][r].pc = "done"
        /\ Len(runs[c][r].spoken) = 1
        /\ runs[c][r].errorSends = 1
        /\ runs[c][r].audioSends = 0
        /\ AudioAt(c, r) = {}
        /\ Cardinality(AiErrorAt(c, r)) <= 1
        /\ ready[c] = "OPEN" => Cardinality(AiErrorAt(c, r)) = 1

C15_FailureStep ==
    \A c \in Sessions :
        /\ \A r \in DOMAIN runs[c] :
              (Completes(c, r) /\ r \in SynthesisFailed(c)') =>
                  /\ stt'[c] = stt[c]
                  /\ recognizeStream'[c] = recognizeStream[c]
                  /\ ready'[c] = ready[c]
        /\ (ready[c] = "OPEN" /\ ready'[c] = "CLOSING") =>
              \E s \in DOMAIN stt[c] : EmitsError(c, s)

\* C15: a run whose synthesis is canceled, or fails through the error
\* callback, makes one ws.send of {error} (which reaches the client of an
\* open connection once) and none of {aiAudioBase64}; its failure ends no
\* stream and leaves the connection as it was; and the server closes an open
\* connection only in the step in which a stream reports its error.
C15_SynthesisFailureIsolated ==
    []C15_OneErrorNoAudio /\ [][C15_FailureStep]_vars

\* A synthesis failed: the client got the error of that run, and the
\* connection and the stream are still open.
C15_Witness ==
    \E c \in Sessions : \E r \in SynthesisFailed(c) :
        /\ AiErrorAt(c, r) # {}
        /\ ready[c] = "OPEN"
        /\ recognizeStream[c] # 0
        /\ stt[c][recognizeStream[c]].status = "open"

\* ------------------------------------------------------------------ C16
\* The runs of session c that have not finished.
InFlight(c) == {r \in DOMAIN runs[c] : runs[c][r].pc # "done"}

\* With a run in flight on an open connection, the next frame can be taken
\* and the next transcript of the session's live stream can be handled.
C16_NothingWaits ==
    \A c \in Sessions :
        (InFlight(c) # {} /\ ready[c] = "OPEN") =>
            /\ recognizeStream[c] # 0
            /\ FramesTaken < MaxFrames => ENABLED WsOnMessage(c, "binary", TRUE)
            /\ (EventsTaken < MaxEvents
                    /\ Live(stt[c][recognizeStream[c]].status)) =>
                  ENABLED StreamData(c, recognizeStream[c], "interim")

\* A frame taken while a run is in flight is written to the stream the
\* session holds, which stays the same; a transcript handled meanwhile is
\* sent to the client; neither changes a run in flight.
C16_FrameAndTranscriptStep ==
    \A c \in Sessions :
        (InFlight(c) # {} /\ ready[c] = "OPEN") =>
            /\ nFrames'[c] # nFrames[c] =>
                  /\ writes'[c] = Append(writes[c],
                         [stream |-> recognizeStream[c], frame |-> nFrames[c] + 1])
                  /\ recognizeStream'[c] = recognizeStream[c]
                  /\ Len(stt'[c]) = Len(stt[c])
                  /\ runs'[c] = runs[c]
            /\ events'[c].transcripts # events[c].transcripts =>
                  /\ outbound'[c] = Append(outbound[c],
                         TranscriptMsg(events[c].transcripts + 1,
                                       events'[c].finals # events[c].finals))
                  /\ \A r \in DOMAIN runs[c] : runs'[c][r] = runs[c][r]

\* C16: while a run of a session is in flight, frames are still taken and
\* written to the same stream, and transcripts are still sent to the client:
\* neither waits for the run.
C16_RunsDoNotBlock ==
    []C16_NothingWaits /\ [][C16_FrameAndTranscriptStep]_vars

\* Run 1, started by transcript 1, is still waiting for the Generator; the
\* second transcript has reached the client and two frames are written to
\* the one stream.
C16_Witness ==
    \E c \in Sessions :
        /\ Len(runs[c]) = 1
        /\ runs[c][1].ev = 1
        /\ runs[c][1].pc = "fetch"
        /\ ready[c] = "OPEN"
        /\ outbound[c] = <<TranscriptMsg(1, TRUE), TranscriptMsg(2, FALSE)>>
        /\ writes[c] = <<[stream |-> 1, frame |-> 1], [stream |-> 1, frame |-> 2]>>

\* ------------------------------------------------------------------ C17
\* Every final transcript has its run, and a run in flight can take its next
\* step whatever the other runs are doing.
C17_RunsIndependent ==
    \A c \in Sessions :
        /\ Len(runs[c]) = events[c].finals
        /\ \A r \in InFlight(c) :
              CASE runs[c][r].pc = "fetch" -> ENABLED FetchSettles(c, r, "ok")
                [] runs[c][r].pc = "errorBody" -> ENABLED ErrorBodySettles(c, r)
                [] runs[c][r].pc = "resultBody" ->
                       ENABLED ResultBodySettles(c, r, "answer")
                [] runs[c][r].pc = "speak" -> ENABLED SpeakSettles(c, r, "completed")

\* A final transcript handled while runs are in flight starts one more run
\* at its Generator call and changes none of the others; a run that
\* completes on an open connection sends its result in that very step.
C17_RunStep ==
    \A c \in Sessions :
        /\ events'[c].finals # events[c].finals =>
              /\ Len(runs'[c]) = Len(runs[c]) + 1
              /\ runs'[c][Len(runs'[c])].pc = "fetch"
              /\ runs'[c][Len(runs'[c])].ev = events'[c].transcripts
              /\ \A r \in DOMAIN runs[c] : runs'[c][r] = runs[c][r]
        /\ \A r \in DOMAIN runs[c] :
              (Completes(c, r) /\ ready[c] = "OPEN") =>
                  /\ Len(outbound'[c]) = Len(outbound[c]) + 1
                  /\ SubSeq(outbound'[c], 1, Len(outbound[c])) = outbound[c]
                  /\ outbound'[c][Len(outbound'[c])].ref = r
                  /\ outbound'[c][Len(outbound'[c])].kind \in {"aiAudioBase64", "error"}

\* C17: a final transcript that arrives while an earlier run is in flight
\* starts a second run beside it; no run is dropped, cancelled or made to
\* wait for another, and the result of a run is sent when that run completes
\* (so the result of a later run can reach the client first).
C17_ConcurrentRuns ==
    []C17_RunsIndependent /\ [][C17_RunStep]_vars

\* The audio of run 2 reached the client before the audio of run 1.
C17_Witness ==
    \E c \in Sessions :
        \E i \in AudioAt(c, 2) : \E j \in AudioAt(c, 1) : i < j

\* ------------------------------------------------------------------ C18
\* The transcript messages the client received, in order.
IsTranscript(m) == m.kind = "transcribedText"

Transcripts(c) == SelectSeq(outbound[c], IsTranscript)

\* C18: the {transcribedText, isFinal} messages reach the client in the
\* order in which the stream emitted their events, one message for each
\* event that carried a transcript (all of them while the connection is
\* open), whatever the pipeline runs are doing.
C18_TranscriptsInOrder ==
    \A c \in Sessions :
        LET t == Transcripts(c)
        IN  /\ \A i \in DOMAIN t : t[i].ref = i
            /\ Len(t) <= events[c].transcripts
            /\ ready[c] = "OPEN" => Len(t) = events[c].transcripts
            /\ \A r \in DOMAIN runs[c] :
                  runs[c][r].ev <= Len(t) => t[runs[c][r].ev].isFinal

\* Two transcripts reached the client in order, the error of run 1 between
\* them, while run 2 is still in flight.
C18_Witness ==
    \E c \in Sessions :
        /\ outbound[c] = <<TranscriptMsg(1, TRUE), AiErrorMsg(1), TranscriptMsg(2, TRUE)>>
        /\ 2 \in InFlight(c)

\* ------------------------------------------------------------------ C19
\* The terminal messages of run r that the client received.
TerminalAt(c, r) == AudioAt(c, r) \cup AiErrorAt(c, r)

C19_OneTerminalMessage ==
    \A c \in Sessions : \A r \in DOMAIN runs[c] :
        /\ Cardinality(TerminalAt(c, r)) <= 1
        /\ runs[c][r].errorSends + runs[c][r].audioSends <= 1
        /\ runs[c][r].pc # "done" => TerminalAt(c, r) = {}
        /\ (runs[c][r].pc = "done" /\ ready[c] = "OPEN") =>
              Cardinality(TerminalAt(c, r)) = 1

C19_RunEnds ==
    \A c \in SessionIds : \A r \in 1..MaxEvents :
        (r \in DOMAIN runs[c]) ~>
            (ready[c] # "OPEN" \/ (r \in DOMAIN runs[c] /\ runs[c][r].pc = "done"))

\* C19: when every call a run awaits settles, a run started by a final
\* transcript ends, unless the connection stops being open first; the run
\* that ends on an open connection has sent one terminal message,
\* {aiAudioBase64} or {error}, and no run ever sends two.
C19_EveryRunAnswers ==
    []C19_OneTerminalMessage /\ C19_RunEnds

\* Two runs have ended on an open connection, one with its audio and one
\* with its error.
C19_Witness ==
    \E c \in Sessions :
        /\ ready[c] = "OPEN"
        /\ Len(runs[c]) = 2
        /\ AudioAt(c, 1) # {} /\ AiErrorAt(c, 1) = {}
        /\ AiErrorAt(c, 2) # {} /\ AudioAt(c, 2) = {}

\* ------------------------------------------------------------------ C20
\* The session has observed the close or the error of its connection.
Terminal(c) == ready[c] \in {"CLOSED", "FAILED"}

C20_NoStreamHeld ==
    \A c \in Sessions :
        Terminal(c) =>
            /\ recognizeStream[c] = 0
            /\ \A s \in DOMAIN stt[c] : stt[c][s].status # "open"

C20_TerminalStep ==
    \A c \in Sessions :
        Terminal(c) =>
            /\ Terminal(c)'
            /\ nFrames'[c] = nFrames[c]
            /\ writes'[c] = writes[c]
            /\ Len(stt'[c]) = Len(stt[c])
            /\ recognizeStream'[c] = 0

\* C20: once the session has observed the close or the error of its
\* connection it stays so: it holds no stream, no frame is taken any more,
\* none is written to a stream and no stream is opened.
C20_TerminalSession ==
    []C20_NoStreamHeld /\ [][C20_TerminalStep]_vars

\* The connection failed after one frame: the stream was ended and let go,
\* and the frame the client could still send is not taken.
C20_Witness ==
    \E c \in Sessions :
        /\ ready[c] = "FAILED"
        /\ nFrames[c] = 1
        /\ Len(writes[c]) = 1
        /\ Len(stt[c]) = 1
        /\ stt[c][1].ends = 1
        /\ recognizeStream[c] = 0
        /\ ~ENABLED WsOnMessage(c, "binary", TRUE)

\* ------------------------------------------------------------------ C21
\* All that belongs to session c: its socket, its closure variable, its
\* streams, the frames and events it has handled, its runs, and what its
\* client has received.
SessionState(c) ==
    <<ready[c], recognizeStream[c], stt[c], nFrames[c], writes[c], events[c],
      runs[c], outbound[c], textFrames[c]>>

\* Every frame of a session is written to a stream of that session, and a
\* client receives only transcripts of events of its own streams, results
\* of its own runs and errors of its own streams: all of them while its
\* connection is open.
C21_OwnStreamsAndMessages ==
    \A c \in Sessions :
        /\ Len(writes[c]) = nFrames[c]
        /\ \A i \in DOMAIN writes[c] : writes[c][i].stream \in DOMAIN stt[c]
        /\ \A i \in DOMAIN outbound[c] :
              LET m == outbound[c][i]
              IN  CASE m.kind = "transcribedText" -> m.ref <= events[c].transcripts
                    [] m.kind = "aiAudioBase64" -> m.ref \in DOMAIN runs[c]
                    [] m.data = <<"STT streaming error">> -> m.ref \in DOMAIN stt[c]
                    [] OTHER -> m.ref \in DOMAIN runs[c]
        /\ Len(Transcripts(c)) <= events[c].transcripts
        /\ ready[c] = "OPEN" =>
              /\ Len(Transcripts(c)) = events[c].transcripts
              /\ \A r \in DOMAIN runs[c] :
                    runs[c][r].pc = "done" => Cardinality(TerminalAt(c, r)) = 1

\* A step that changes something of one session changes nothing of any
\* other session.
C21_OneSessionPerStep ==
    \A c \in Sessions : \A d \in Sessions \ {c} :
        SessionState(c)' # SessionState(c) => SessionState(d)' = SessionState(d)

\* C21: with several sessions at once, a frame of a session is written only
\* to that session's stream, the transcripts, results and errors that a
\* session's stream causes are sent only on that session's connection, and
\* whatever a session does (its teardown and its stream's error included)
\* leaves the streams and the connection of every other session unchanged.
C21_SessionsIsolated ==
    []C21_OwnStreamsAndMessages /\ [][C21_OneSessionPerStep]_vars

\* Session 1 lost its connection to an error of its stream; session 2 has
\* its stream and its connection open, its frame written and its transcript
\* received.
C21_Witness ==
    /\ Sessions = TwoSessionIds
    /\ ready[1] = "CLOSED"
    /\ Len(stt[1]) = 1
    /\ Errored(stt[1][1].status)
    /\ outbound[1] = <<SttErrorMsg(1)>>
    /\ ready[2] = "OPEN"
    /\ recognizeStream[2] = 1
    /\ stt[2] = <<[status |-> "open", ends |-> 0]>>
    /\ writes[2] = <<[stream |-> 1, frame |-> 1]>>
    /\ outbound[2] = <<TranscriptMsg(1, FALSE)>>
====
